---- MODULE Spec2Model ----
(***************************************************************************)
(* TUTU Shop backend (server.js): per-category product catalogs kept as    *)
(* JSON files, and two upload endpoints.  Every async handler is cut at    *)
(* its awaits: the step that completes fs.readFile runs the synchronous    *)
(* code up to the next await, and so on.                                   *)
(***************************************************************************)
EXTENDS Integers, Sequences, FiniteSets, TLC

\* ---------------------------------------------------------------- bounds
MaxReqs == 3        \* requests started in one behaviour
MaxClock == 1       \* largest reading of the wall clock

\* ------------------------------------------------------------ input sets
Categories == {"coffee", "music"}
Slots == {1, 2}

\* an uploaded file's name: <<Date.now(), random, extension>>
ImagePath == <<"uploads", "images", <<0, 1, ".png">>>>
AudioPath == <<"uploads", "audio", <<0, 1, ".mp3">>>>
ExternalPath == <<"cdn", "latte.png">>
\* a timestamp a caller sends: no reading of the server clock
CallerStamp == [ms |-> 0 - 1]

\* request bodies (parsed JSON objects)
BodyLatte == [name |-> "Latte", image |-> ImagePath]
BodyPrice == [price |-> 5]
BodyReserved == [id |-> 1, name |-> "Mocha", createdAt |-> CallerStamp, updatedAt |-> CallerStamp]
BodySong == [name |-> "Song", image |-> ExternalPath, audioFile |-> AudioPath]
Bodies == {BodyLatte, BodyPrice, BodyReserved, BodySong}
BodiesNoId == {b \in Bodies : "id" \notin DOMAIN b}

\* multipart uploads: the file sent, if any
MiB == 1024 * 1024
NoFile == [sent |-> FALSE, mimetype |-> <<"", "">>, size |-> 0, ext |-> ""]
PngFile == [sent |-> TRUE, mimetype |-> <<"image", "png">>, size |-> 9 * MiB, ext |-> ".png"]
BigPngFile == [sent |-> TRUE, mimetype |-> <<"image", "png">>, size |-> 11 * MiB, ext |-> ".png"]
TextFile == [sent |-> TRUE, mimetype |-> <<"text", "plain">>, size |-> MiB, ext |-> ".txt"]
Mp3File == [sent |-> TRUE, mimetype |-> <<"audio", "mpeg">>, size |-> 11 * MiB, ext |-> ".mp3"]
BigMp3File == [sent |-> TRUE, mimetype |-> <<"audio", "mpeg">>, size |-> 51 * MiB, ext |-> ".mp3"]
UploadFiles == {NoFile, PngFile, BigPngFile, TextFile, Mp3File, BigMp3File}
\* Math.round(Math.random() * 1E9)
Randoms == {1, 2}

\* :id path parameters, as character sequences
IdParams == {<<"1">>, <<"2">>, <<"a", "b", "c">>}

\* :id parameters such as 'abc', '1abc', '1.5', beside the numeral '1'
OddIdParams == {<<"1">>, <<"a", "b", "c">>, <<"1", "a", "b", "c">>, <<"1", ".", "5">>}
IdsBodies == {BodyLatte, BodyPrice}

\* inputs of the requests on two categories
IsoBodies == {BodyLatte, BodyPrice}
IsoIdParams == {<<"1">>, <<"2">>}

\* inputs of the requests whose reads and writes may fail
FairBodies == {BodyLatte, BodySong}
FairIdParams == {<<"1">>, <<"2">>}

\* inputs of the overlapping requests
ConcBodies == {BodyLatte, BodySong}
ConcIdParams == {<<"1">>, <<"2">>}

\* ---------------------------------------------------------------- state
VARIABLES
    files,      \* files[c]: content of data/products_<c>.json (when present)
    present,    \* categories whose catalog file exists
    uploads,    \* paths of the files on disk under uploads/
    now,        \* the wall clock (new Date())
    nreq,       \* requests started so far
    reqs,       \* reqs[s]: the request handled in slot s (its locals and response)
    ver,        \* ver[c]: number of writes of the catalog file of c so far
    upload,     \* the most recent upload request and its response
    created,    \* created[c]: the ids returned by the Create requests on c, in order
    deleted     \* categories on which a Delete request has succeeded

vars == <<files, present, uploads, now, nreq, reqs, ver, upload, created, deleted>>

\* ------------------------------------------------------------- helpers
NoProduct == [f \in {} |-> 0]

Digits == {"0", "1", "2", "3", "4", "5", "6", "7", "8", "9"}

DigitValue(ch) ==
    CASE ch = "0" -> 0 [] ch = "1" -> 1 [] ch = "2" -> 2 [] ch = "3" -> 3
      [] ch = "4" -> 4 [] ch = "5" -> 5 [] ch = "6" -> 6 [] ch = "7" -> 7
      [] ch = "8" -> 8 [] ch = "9" -> 9

\* parseInt yields NaN when the string does not start with a digit
NaN == -1

RECURSIVE DigitPrefix(_, _)
DigitPrefix(str, acc) ==
    IF str = <<>> \/ Head(str) \notin Digits
    THEN acc
    ELSE DigitPrefix(Tail(str), acc * 10 + DigitValue(Head(str)))

\* parseInt(id): the longest leading run of digits, NaN if there is none
parseInt(str) ==
    IF str = <<>> \/ Head(str) \notin Digits THEN NaN ELSE DigitPrefix(str, 0)

\* p.id === parseInt(id): NaN equals nothing, a missing id equals nothing
IdMatches(p, n) == n # NaN /\ "id" \in DOMAIN p /\ p.id = n

\* p.id || 0
IdOrZero(p) == IF "id" \in DOMAIN p THEN p.id ELSE 0

Max(S) == CHOOSE m \in S : \A x \in S : x <= m

\* findIndex that falls back to the first record when nothing matches
findIndexOrFirst(products, n) ==
    IF \E i \in 1..Len(products) : IdMatches(products[i], n)
    THEN CHOOSE i \in 1..Len(products) :
            /\ IdMatches(products[i], n)
            /\ \A j \in 1..(i - 1) : ~IdMatches(products[j], n)
    ELSE IF Len(products) > 0 THEN 1 ELSE 0

\* products.findIndex(p => p.id === parseInt(id)); 0 stands for -1
findIndex(products, n) ==
    IF \E i \in 1..Len(products) : IdMatches(products[i], n)
    THEN CHOOSE i \in 1..Len(products) :
            /\ IdMatches(products[i], n)
            /\ \A j \in 1..(i - 1) : ~IdMatches(products[j], n)
    ELSE 0

\* { ...a, ...b }
Spread(a, b) ==
    [f \in DOMAIN a \cup DOMAIN b |-> IF f \in DOMAIN b THEN b[f] ELSE a[f]]

\* an id taken from the length of the catalog
newIdLength(products) == IF Len(products) > 0 THEN Len(products) ELSE 1

\* an id taken from the clock (Date.now()) instead of the catalog
newIdFromClock(products) == now + 1

\* products.length > 0 ? Math.max(...products.map(p => p.id || 0)) + 1 : 1
newId(products) ==
    IF Len(products) > 0
    THEN Max({IdOrZero(products[i]) : i \in 1..Len(products)}) + 1
    ELSE 1

\* { id: newId, ...req.body, createdAt: ..., updatedAt: ... }
NewProduct(products, body, t1, t2) ==
    Spread(Spread([id |-> newId(products)], body), [createdAt |-> t1, updatedAt |-> t2])

\* an update that replaces the record by the body instead of merging
UpdatedProductReplace(old, body, n, t) ==
    Spread(body, [id |-> n, updatedAt |-> t])

\* { ...products[index], ...req.body, id: parseInt(id), updatedAt: ... }
UpdatedProduct(old, body, n, t) ==
    Spread(Spread(old, body), [id |-> n, updatedAt |-> t])

\* a removal of every record with the id of products[index]
\* (products.filter(p => p.id !== id))
spliceFilter(products, index) ==
    SelectSeq(products, LAMBDA p : IdOrZero(p) # IdOrZero(products[index]))

\* products.splice(index, 1)
splice(products, index) ==
    [i \in 1..(Len(products) - 1) |-> IF i < index THEN products[i] ELSE products[i + 1]]

\* str && str.startsWith('/uploads/'), on a path given by its segments
InUploads(p, field) ==
    /\ field \in DOMAIN p
    /\ Len(p[field]) >= 2
    /\ p[field][1] = "uploads"

\* loadProducts: the parsed file, or [] on ENOENT
loadProducts(c) == IF c \in present THEN files[c] ELSE <<>>

\* new Date(): the clock may have advanced since it was last read
ClockReadings == {t \in {now, now + 1} : t <= MaxClock}

\* new Date(t).toISOString()
toISOString(t) == [ms |-> t]

Idle ==
    [pc |-> "idle", seq |-> 0, kind |-> "none", category |-> "", id |-> <<>>,
     body |-> NoProduct, loaded |-> <<>>, products |-> <<>>, index |-> 0,
     loadVer |-> 0, saveVer |-> 0, existed |-> FALSE,
     attempted |-> {}, logged |-> {}, failed |-> "none", responses |-> 0,
     status |-> 0, product |-> NoProduct, list |-> <<>>]

NoUpload == [endpoint |-> "none", file |-> NoFile, status |-> 0, json |-> FALSE, url |-> <<>>]

Init ==
    /\ files = [c \in Categories |-> <<>>]
    /\ present = {}
    /\ uploads = {}
    /\ now = 0
    /\ nreq = 0
    /\ reqs = [s \in Slots |-> Idle]
    /\ ver = [c \in Categories |-> 0]
    /\ upload = NoUpload
    /\ created = [c \in Categories |-> <<>>]
    /\ deleted = {}

\* a request arrives in slot s: the slot is free and the budget allows it
Accept(s) ==
    /\ reqs[s].pc \in {"idle", "done"}
    /\ nreq < MaxReqs
    /\ nreq' = nreq + 1

Arrived(s, kind, c, id, body) ==
    [Idle EXCEPT !.seq = nreq + 1, !.kind = kind, !.category = c, !.id = id,
                 !.body = body, !.loaded = loadProducts(c), !.loadVer = ver[c],
                 !.existed = (c \in present)]

\* a save that appends to the file instead of replacing it
saveProductsAppend(c, products) ==
    /\ files' = [files EXCEPT ![c] = @ \o products]
    /\ present' = present \cup {c}
    /\ ver' = [ver EXCEPT ![c] = @ + 1]

\* a save whose file path leaves the category out: one file for all
saveProductsShared(c, products) ==
    /\ files' = [d \in Categories |-> products]
    /\ present' = Categories
    /\ ver' = [d \in Categories |-> ver[d] + 1]

\* saveProducts: fs.writeFile replaces the whole file (and creates it)
saveProducts(c, products) ==
    /\ files' = [files EXCEPT ![c] = products]
    /\ present' = present \cup {c}
    /\ ver' = [ver EXCEPT ![c] = @ + 1]

\* a List that writes an empty catalog file when it finds none
ListCreating(s, c) ==
    /\ Accept(s)
    /\ reqs' = [reqs EXCEPT ![s] =
                  [Arrived(s, "list", c, <<>>, NoProduct) EXCEPT
                      !.pc = "done", !.responses = @ + 1, !.status = 200, !.list = loadProducts(c)]]
    /\ present' = present \cup {c}
    /\ UNCHANGED <<files, uploads, now, ver, upload, created, deleted>>

\* GET /api/products/:category
List(s, c) ==
    /\ Accept(s)
    /\ reqs' = [reqs EXCEPT ![s] =
                  [Arrived(s, "list", c, <<>>, NoProduct) EXCEPT
                      !.pc = "done", !.responses = @ + 1, !.status = 200, !.list = loadProducts(c)]]
    /\ UNCHANGED <<files, present, uploads, now, ver, upload, created, deleted>>

\* GET /api/products/:category/:id
Get(s, c, id) ==
    LET products == loadProducts(c)
        index == findIndex(products, parseInt(id))
    IN  /\ Accept(s)
        /\ reqs' = [reqs EXCEPT ![s] =
                      IF index = 0
                      THEN [Arrived(s, "get", c, id, NoProduct) EXCEPT
                               !.pc = "done", !.responses = @ + 1, !.status = 404]
                      ELSE [Arrived(s, "get", c, id, NoProduct) EXCEPT
                               !.pc = "done", !.responses = @ + 1, !.status = 200, !.index = index,
                               !.product = products[index]]]
        /\ UNCHANGED <<files, present, uploads, now, ver, upload, created, deleted>>

\* POST /api/products/:category, up to the await of saveProducts
Create(s, c, body) ==
    \E t1 \in ClockReadings :
      \E t2 \in {t \in {t1, t1 + 1} : t <= MaxClock} :
        LET products == loadProducts(c)
            product == NewProduct(products, body, toISOString(t1), toISOString(t2))
        IN  /\ Accept(s)
            /\ now' = t2
            /\ reqs' = [reqs EXCEPT ![s] =
                          [Arrived(s, "create", c, <<>>, body) EXCEPT
                              !.pc = "saving", !.product = product,
                              !.products = Append(products, product),
                              !.index = Len(products) + 1]]
            /\ UNCHANGED <<files, present, uploads, ver, upload, created, deleted>>

\* POST: saveProducts completes, res.status(201).json(product)
CreateSaved(s) ==
    /\ reqs[s].pc = "saving"
    /\ reqs[s].kind = "create"
    /\ saveProducts(reqs[s].category, reqs[s].products)
    /\ reqs' = [reqs EXCEPT ![s].pc = "done", ![s].responses = @ + 1, ![s].status = 201,
                            ![s].saveVer = ver[reqs[s].category] + 1]
    /\ created' = [created EXCEPT ![reqs[s].category] = Append(@, reqs[s].product.id)]
    /\ UNCHANGED <<uploads, now, nreq, upload, deleted>>

\* PUT /api/products/:category/:id, up to the await of saveProducts
Update(s, c, id, body) ==
    \E t \in ClockReadings :
      LET products == loadProducts(c)
          n == parseInt(id)
          index == findIndex(products, n)
          product == UpdatedProduct(products[index], body, n, toISOString(t))
      IN  /\ Accept(s)
          /\ IF index = 0
             THEN /\ reqs' = [reqs EXCEPT ![s] =
                                [Arrived(s, "update", c, id, body) EXCEPT
                                    !.pc = "done", !.responses = @ + 1, !.status = 404]]
                  /\ now' = now
             ELSE /\ reqs' = [reqs EXCEPT ![s] =
                                [Arrived(s, "update", c, id, body) EXCEPT
                                    !.pc = "saving", !.index = index,
                                    !.product = product,
                                    !.products = [products EXCEPT ![index] = product]]]
                  /\ now' = t
          /\ UNCHANGED <<files, present, uploads, ver, upload, created, deleted>>

\* PUT: saveProducts completes, res.json(products[index])
UpdateSaved(s) ==
    /\ reqs[s].pc = "saving"
    /\ reqs[s].kind = "update"
    /\ saveProducts(reqs[s].category, reqs[s].products)
    /\ reqs' = [reqs EXCEPT ![s].pc = "done", ![s].responses = @ + 1, ![s].status = 200,
                            ![s].saveVer = ver[reqs[s].category] + 1]
    /\ UNCHANGED <<uploads, now, nreq, upload, created, deleted>>

\* a Delete without the inner try/catch: a failed unlink ends the request
DeleteContinueFailing(r, stage) ==
    IF r.logged # {}
    THEN [r EXCEPT !.pc = "done", !.responses = @ + 1, !.status = 500]
    ELSE IF stage = 1 /\ InUploads(r.product, "image")
    THEN [r EXCEPT !.pc = "unlinkImage"]
    ELSE IF stage <= 2 /\ InUploads(r.product, "audioFile")
         THEN [r EXCEPT !.pc = "unlinkAudio"]
         ELSE [r EXCEPT !.pc = "saving", !.products = splice(r.products, r.index)]

\* DELETE: the handler's position after the load, or after an unlink
\* (stage 1: before the image check, 2: before the audio check)
DeleteContinue(r, stage) ==
    IF stage = 1 /\ InUploads(r.product, "image")
    THEN [r EXCEPT !.pc = "unlinkImage"]
    ELSE IF stage <= 2 /\ InUploads(r.product, "audioFile")
         THEN [r EXCEPT !.pc = "unlinkAudio"]
         ELSE [r EXCEPT !.pc = "saving", !.products = splice(r.products, r.index)]

\* DELETE /api/products/:category/:id, up to its first await after the load
Delete(s, c, id) ==
    LET products == loadProducts(c)
        index == findIndex(products, parseInt(id))
    IN  /\ Accept(s)
        /\ reqs' = [reqs EXCEPT ![s] =
                      IF index = 0
                      THEN [Arrived(s, "delete", c, id, NoProduct) EXCEPT
                               !.pc = "done", !.responses = @ + 1, !.status = 404]
                      ELSE DeleteContinue(
                               [Arrived(s, "delete", c, id, NoProduct) EXCEPT
                                   !.index = index, !.products = products,
                                   !.product = products[index]], 1)]
        /\ UNCHANGED <<files, present, uploads, now, ver, upload, created, deleted>>

\* fs.unlink(path) can succeed only on a file that is there; it can fail on
\* any path (no such file, or no permission to remove it)
UnlinkOutcomes(path) == IF path \in uploads THEN {TRUE, FALSE} ELSE {FALSE}

\* await fs.unlink(path): the file is removed, or the error is thrown
unlink(path, ok) == uploads' = IF ok THEN uploads \ {path} ELSE uploads

\* try { await fs.unlink(...) } catch (err) { console.error(...) }: the
\* request goes on after the attempt on the field, logging a failure
Unlinked(r, field, ok) ==
    [r EXCEPT !.attempted = @ \cup {field},
              !.logged = IF ok THEN @ ELSE @ \cup {field}]

\* DELETE: the unlink of the image completes or fails
UnlinkImage(s) ==
    /\ reqs[s].pc = "unlinkImage"
    /\ \E ok \in UnlinkOutcomes(reqs[s].product.image) :
          /\ unlink(reqs[s].product.image, ok)
          /\ reqs' = [reqs EXCEPT ![s] = DeleteContinue(Unlinked(reqs[s], "image", ok), 2)]
    /\ UNCHANGED <<files, present, now, nreq, ver, upload, created, deleted>>

\* DELETE: the unlink of the audio file completes or fails
UnlinkAudio(s) ==
    /\ reqs[s].pc = "unlinkAudio"
    /\ \E ok \in UnlinkOutcomes(reqs[s].product.audioFile) :
          /\ unlink(reqs[s].product.audioFile, ok)
          /\ reqs' = [reqs EXCEPT ![s] = DeleteContinue(Unlinked(reqs[s], "audioFile", ok), 3)]
    /\ UNCHANGED <<files, present, now, nreq, ver, upload, created, deleted>>

\* DELETE: saveProducts completes, res.json({ message })
DeleteSaved(s) ==
    /\ reqs[s].pc = "saving"
    /\ reqs[s].kind = "delete"
    /\ saveProducts(reqs[s].category, reqs[s].products)
    /\ reqs' = [reqs EXCEPT ![s].pc = "done", ![s].responses = @ + 1, ![s].status = 200,
                            ![s].saveVer = ver[reqs[s].category] + 1]
    /\ deleted' = deleted \cup {reqs[s].category}
    /\ UNCHANGED <<uploads, now, nreq, upload, created>>

\* ------------------------------------------------------ I/O failures
\* loadProducts throws (a read error other than ENOENT, or JSON.parse):
\* the handler's catch answers 500
LoadFailed(s, kind, c, id, body) ==
    /\ Accept(s)
    /\ reqs' = [reqs EXCEPT ![s] =
                  [Arrived(s, kind, c, id, body) EXCEPT
                      !.pc = "done", !.responses = @ + 1, !.status = 500,
                      !.failed = "load", !.loaded = <<>>]]
    /\ UNCHANGED <<files, present, uploads, now, ver, upload, created, deleted>>

\* a catch that logs the error and sends no response
SaveFailedSilently(s) ==
    /\ reqs[s].pc = "saving"
    /\ reqs' = [reqs EXCEPT ![s].pc = "done", ![s].failed = "save"]
    /\ UNCHANGED <<files, present, uploads, now, nreq, ver, upload, created, deleted>>

\* saveProducts throws before anything is written: the handler's catch
\* answers 500
SaveFailed(s) ==
    /\ reqs[s].pc = "saving"
    /\ reqs' = [reqs EXCEPT ![s].pc = "done", ![s].responses = @ + 1,
                            ![s].status = 500, ![s].failed = "save"]
    /\ UNCHANGED <<files, present, uploads, now, nreq, ver, upload, created, deleted>>

\* ------------------------------------------------------------ uploads
\* limits: { fileSize } of imageUpload and audioUpload
imageFileSize == 10 * MiB
audioFileSize == 50 * MiB

\* fileFilter: file.mimetype.startsWith('image/') (or 'audio/')
fileFilter(file, prefix) == file.mimetype[1] = prefix

\* storage.filename: Date.now() + '-' + random + path.extname(originalname)
filename(t, r, file) == <<t, r, file.ext>>

\* An error handed to cb() by the fileFilter, or raised by multer for a file
\* over limits.fileSize, goes to next(err).  The application registers no
\* error-handling middleware, so the framework's default handler answers:
\* err.status is unset, the status is 500 and the body is not JSON.
UnhandledError(endpoint) ==
    [endpoint |-> endpoint, file |-> NoFile, status |-> 500, json |-> FALSE, url |-> <<>>]

\* upload.single(field) followed by the route's handler
uploadSingle(endpoint, dir, prefix, limit, file, t, r) ==
    IF ~file.sent
    THEN /\ upload' = [endpoint |-> endpoint, file |-> file, status |-> 400,
                       json |-> TRUE, url |-> <<>>]
         /\ uploads' = uploads
    ELSE IF ~fileFilter(file, prefix)
    THEN /\ upload' = [UnhandledError(endpoint) EXCEPT !.file = file]
         /\ uploads' = uploads
    ELSE IF file.size > limit
    THEN \* the partly written file is removed again
         /\ upload' = [UnhandledError(endpoint) EXCEPT !.file = file]
         /\ uploads' = uploads
    ELSE /\ upload' = [endpoint |-> endpoint, file |-> file, status |-> 200, json |-> TRUE,
                       url |-> <<"uploads", dir, filename(t, r, file)>>]
         /\ uploads' = uploads \cup {<<"uploads", dir, filename(t, r, file)>>}

\* POST /api/upload/image
UploadImage(file, r) ==
    \E t \in ClockReadings :
        /\ nreq < MaxReqs
        /\ nreq' = nreq + 1
        /\ now' = t
        /\ uploadSingle("image", "images", "image", imageFileSize, file, t, r)
        /\ UNCHANGED <<files, present, reqs, ver, created, deleted>>

\* POST /api/upload/audio
UploadAudio(file, r) ==
    \E t \in ClockReadings :
        /\ nreq < MaxReqs
        /\ nreq' = nreq + 1
        /\ now' = t
        /\ uploadSingle("audio", "audio", "audio", audioFileSize, file, t, r)
        /\ UNCHANGED <<files, present, reqs, ver, created, deleted>>

\* ------------------------------------------------ sequential requests
InFlight(s) == reqs[s].pc \notin {"idle", "done"}
Quiet == \A s \in Slots : ~InFlight(s)
\* the slot of the next request: the one holding the older response
SeqSlot == (nreq % 2) + 1

\* Requests run one after another, on one category
Next ==
    \/ \E id \in IdParams : Quiet /\ Get(SeqSlot, "coffee", id)
    \/ Quiet /\ List(SeqSlot, "coffee")
    \/ \E b \in Bodies : Quiet /\ Create(SeqSlot, "coffee", b)
    \/ \E id \in IdParams, b \in Bodies : Quiet /\ Update(SeqSlot, "coffee", id, b)
    \/ \E id \in IdParams : Quiet /\ Delete(SeqSlot, "coffee", id)
    \/ \E s \in Slots : CreateSaved(s)
    \/ \E s \in Slots : UpdateSaved(s)
    \/ \E s \in Slots : UnlinkImage(s)
    \/ \E s \in Slots : UnlinkAudio(s)
    \/ \E s \in Slots : DeleteSaved(s)
    \/ Quiet /\ UploadImage(PngFile, 1)
    \/ Quiet /\ UploadAudio(Mp3File, 1)

Spec == Init /\ [][Next]_vars

\* The upload endpoints alone, with every kind of file
NextUpload ==
    \/ \E file \in UploadFiles, r \in Randoms : UploadImage(file, r)
    \/ \E file \in UploadFiles, r \in Randoms : UploadAudio(file, r)

SpecUpload == Init /\ [][NextUpload]_vars

\* Requests overlap: a handler's steps interleave with the other slot's
NextConc ==
    \/ \E s \in Slots, id \in ConcIdParams : Get(s, "coffee", id)
    \/ \E s \in Slots, b \in ConcBodies : Create(s, "coffee", b)
    \/ \E s \in Slots, id \in ConcIdParams, b \in ConcBodies : Update(s, "coffee", id, b)
    \/ \E s \in Slots, id \in ConcIdParams : Delete(s, "coffee", id)
    \/ \E s \in Slots : CreateSaved(s)
    \/ \E s \in Slots : UpdateSaved(s)
    \/ \E s \in Slots : UnlinkImage(s)
    \/ \E s \in Slots : UnlinkAudio(s)
    \/ \E s \in Slots : DeleteSaved(s)

SpecConc == Init /\ [][NextConc]_vars

\* Requests one after another, with :id parameters that are no numerals
NextIds ==
    \/ \E id \in OddIdParams : Quiet /\ Get(SeqSlot, "coffee", id)
    \/ \E b \in IdsBodies : Quiet /\ Create(SeqSlot, "coffee", b)
    \/ \E id \in OddIdParams, b \in IdsBodies : Quiet /\ Update(SeqSlot, "coffee", id, b)
    \/ \E id \in OddIdParams : Quiet /\ Delete(SeqSlot, "coffee", id)
    \/ \E s \in Slots : CreateSaved(s)
    \/ \E s \in Slots : UpdateSaved(s)
    \/ \E s \in Slots : UnlinkImage(s)
    \/ \E s \in Slots : DeleteSaved(s)

SpecIds == Init /\ [][NextIds]_vars

\* Requests one after another, on either category
NextIso ==
    \/ \E c \in Categories : Quiet /\ List(SeqSlot, c)
    \/ \E c \in Categories, id \in IsoIdParams : Quiet /\ Get(SeqSlot, c, id)
    \/ \E c \in Categories, b \in IsoBodies : Quiet /\ Create(SeqSlot, c, b)
    \/ \E c \in Categories, id \in IsoIdParams, b \in IsoBodies :
          Quiet /\ Update(SeqSlot, c, id, b)
    \/ \E c \in Categories, id \in IsoIdParams : Quiet /\ Delete(SeqSlot, c, id)
    \/ \E s \in Slots : CreateSaved(s)
    \/ \E s \in Slots : UpdateSaved(s)
    \/ \E s \in Slots : UnlinkImage(s)
    \/ \E s \in Slots : DeleteSaved(s)

SpecIso == Init /\ [][NextIso]_vars

\* Overlapping requests whose reads and writes may fail
NextFail ==
    \/ \E s \in Slots : List(s, "coffee")
    \/ \E s \in Slots, id \in FairIdParams : Get(s, "coffee", id)
    \/ \E s \in Slots, b \in FairBodies : Create(s, "coffee", b)
    \/ \E s \in Slots, id \in FairIdParams, b \in FairBodies : Update(s, "coffee", id, b)
    \/ \E s \in Slots, id \in FairIdParams : Delete(s, "coffee", id)
    \/ \E s \in Slots, kind \in {"list", "get", "create", "update", "delete"} :
          LoadFailed(s, kind, "coffee",
                     IF kind \in {"list", "create"} THEN <<>> ELSE <<"1">>,
                     IF kind \in {"create", "update"} THEN BodyLatte ELSE NoProduct)
    \/ \E s \in Slots : CreateSaved(s)
    \/ \E s \in Slots : UpdateSaved(s)
    \/ \E s \in Slots : UnlinkImage(s)
    \/ \E s \in Slots : UnlinkAudio(s)
    \/ \E s \in Slots : DeleteSaved(s)
    \/ \E s \in Slots : SaveFailed(s)

\* the file-system operation the request in slot s awaits completes or fails
Complete(s) ==
    \/ CreateSaved(s)
    \/ UpdateSaved(s)
    \/ UnlinkImage(s)
    \/ UnlinkAudio(s)
    \/ DeleteSaved(s)
    \/ SaveFailed(s)

SpecFair == Init /\ [][NextFail]_vars /\ \A s \in Slots : WF_vars(Complete(s))

\* ================================================================ properties
Mutating == {"create", "update", "delete"}
Reserved == {"id", "createdAt", "updatedAt"}
ServiceStamps == {toISOString(t) : t \in 0..MaxClock}

\* slot s holds the response of the most recent request
Latest(s) == reqs[s].pc = "done" /\ reqs[s].seq = nreq
\* slot s holds the response of the request just before the most recent one
Previous(s) == reqs[s].pc = "done" /\ reqs[s].seq = nreq - 1 /\ reqs[s].seq > 0

HasId(products, n) == \E i \in 1..Len(products) : IdMatches(products[i], n)

\* C1: no two products of a persisted catalog have the same id, whatever
\* Create, Update and Delete requests (run one at a time) produced it.
C1_UniqueIds ==
    \A c \in Categories :
        \A i, j \in 1..Len(files[c]) :
            i # j => IdOrZero(files[c][i]) # IdOrZero(files[c][j])

\* C2: the product a Create returns carries id = max(loaded ids, 0) + 1 and
\* the service's createdAt and updatedAt, whatever the body carries.
C2_ServiceFieldsWin ==
    \A s \in Slots :
        (reqs[s].kind = "create" /\ reqs[s].pc = "done" /\ reqs[s].status = 201) =>
            /\ reqs[s].product.id = newId(reqs[s].loaded)
            /\ reqs[s].product.createdAt \in ServiceStamps
            /\ reqs[s].product.updatedAt \in ServiceStamps

\* C3: from no catalog and with no Delete, the n-th Create returns id n and
\* the catalog holds the created products in insertion order.
C3_SequentialIds ==
    \A c \in Categories :
        c \notin deleted =>
            /\ \A i \in 1..Len(created[c]) : created[c][i] = i
            /\ Len(files[c]) = Len(created[c])
            /\ \A i \in 1..Len(files[c]) : files[c][i].id = i

\* C4: right after a Delete answered 200 the catalog holds no record with
\* that id, and a Get by that id as the next request answers 404.
C4_DeletedIsGone ==
    \A d \in Slots :
        (reqs[d].kind = "delete" /\ reqs[d].status = 200) =>
            /\ Latest(d) => ~HasId(files[reqs[d].category], parseInt(reqs[d].id))
            /\ \A g \in Slots :
                 ( /\ Previous(d) /\ Latest(g)
                   /\ reqs[g].kind = "get"
                   /\ reqs[g].category = reqs[d].category
                   /\ parseInt(reqs[g].id) = parseInt(reqs[d].id) )
                 => reqs[g].status = 404

\* C7: a Get by the id a Create just returned answers 200 with the created
\* product, which is the body plus the assigned id, createdAt and updatedAt.
C7_RoundTrip ==
    \A p \in Slots, g \in Slots :
        ( /\ Previous(p) /\ reqs[p].kind = "create" /\ reqs[p].status = 201
          /\ Latest(g) /\ reqs[g].kind = "get"
          /\ reqs[g].category = reqs[p].category
          /\ parseInt(reqs[g].id) = reqs[p].product.id )
        => /\ reqs[g].status = 200
           /\ reqs[g].product = reqs[p].product
           /\ DOMAIN reqs[p].product = DOMAIN reqs[p].body \cup Reserved
           /\ \A f \in DOMAIN reqs[p].body \ Reserved :
                 reqs[p].product[f] = reqs[p].body[f]
           /\ reqs[p].product.id = newId(reqs[p].loaded)

\* C5: an Update of an existing id overlays the body on the stored record,
\* forces id to the path parameter and refreshes updatedAt; the fields the
\* body omits (createdAt included) keep their values, the record keeps its
\* position, and the other records and the catalog length are unchanged.
C5_UpdateMergesInPlace ==
    \A u \in Slots :
        (Latest(u) /\ reqs[u].kind = "update" /\ reqs[u].status = 200) =>
            LET old == reqs[u].loaded
                new == files[reqs[u].category]
                body == reqs[u].body
                n == parseInt(reqs[u].id)
                i == reqs[u].index
            IN  /\ Len(new) = Len(old)
                /\ i \in 1..Len(old)
                /\ IdMatches(old[i], n)
                /\ \A j \in 1..(i - 1) : ~IdMatches(old[j], n)
                /\ \A j \in (1..Len(old)) \ {i} : new[j] = old[j]
                /\ DOMAIN new[i] = DOMAIN old[i] \cup DOMAIN body \cup {"id", "updatedAt"}
                /\ new[i].id = n
                /\ new[i].updatedAt = toISOString(now)
                /\ \A f \in DOMAIN body \ {"id", "updatedAt"} : new[i][f] = body[f]
                /\ \A f \in DOMAIN old[i] \ (DOMAIN body \cup {"updatedAt"}) :
                       new[i][f] = old[i][f]
                /\ reqs[u].product = new[i]

\* an Update with a partial body has changed the second of two records
C5_Witness ==
    \E u \in Slots :
        /\ Latest(u) /\ reqs[u].kind = "update" /\ reqs[u].status = 200
        /\ reqs[u].index = 2
        /\ "createdAt" \notin DOMAIN reqs[u].body
        /\ "name" \in DOMAIN reqs[u].loaded[2] \ DOMAIN reqs[u].body
        /\ "price" \in DOMAIN reqs[u].body \ DOMAIN reqs[u].loaded[2]

\* C6: an Update or Delete of an id that is not in the catalog answers 404
\* at once and writes nothing: the catalog file is neither changed nor
\* created, and no uploaded file is removed.
C6_NotFoundChangesNothing ==
    [][\A s \in Slots :
          ( /\ nreq' = nreq + 1
            /\ reqs'[s].seq = nreq + 1
            /\ reqs'[s].kind \in {"update", "delete"}
            /\ ~HasId(loadProducts(reqs'[s].category), parseInt(reqs'[s].id)) )
          => /\ reqs'[s].pc = "done"
             /\ reqs'[s].status = 404
             /\ files' = files
             /\ present' = present
             /\ ver' = ver
             /\ uploads' = uploads]_vars

\* a Delete or Update answered 404 while an upload was on disk and the
\* catalog file was absent
C6_Witness ==
    \E s \in Slots :
        /\ Latest(s)
        /\ reqs[s].kind \in {"update", "delete"}
        /\ reqs[s].status = 404
        /\ uploads # {}
        /\ reqs[s].category \notin present

\* C8: every upload ends in a JSON answer of the route: 200 with the url of
\* the stored file, 400 for no file or a wrong MIME prefix, 413 for a file
\* over the ceiling; a rejected upload leaves no new file.
C8_UploadOutcomes ==
    [][(nreq' = nreq + 1 /\ reqs' = reqs) =>
          LET f == upload'.file
              prefix == upload'.endpoint
              limit == IF upload'.endpoint = "image" THEN imageFileSize ELSE audioFileSize
          IN  /\ upload'.json
              /\ upload'.status =
                    (IF ~f.sent \/ f.mimetype[1] # prefix THEN 400
                     ELSE IF f.size > limit THEN 413 ELSE 200)
              /\ upload'.status = 200 => upload'.url \in uploads'
              /\ upload'.status # 200 => uploads' = uploads]_vars

UploadFields == {"image", "audioFile"}

\* C11: a Delete of an existing product attempts to remove exactly the
\* files its image and audioFile name under /uploads/, and a failed removal
\* does not fail it: the record is removed, the catalog saved, the answer 200.
C11_BestEffortRemoval ==
    \A s \in Slots :
        (reqs[s].kind = "delete" /\ reqs[s].index # 0) =>
            /\ reqs[s].attempted \subseteq {f \in UploadFields : InUploads(reqs[s].product, f)}
            /\ reqs[s].logged \subseteq reqs[s].attempted
            /\ reqs[s].pc = "done" =>
                  /\ reqs[s].status = 200
                  /\ reqs[s].attempted = {f \in UploadFields : InUploads(reqs[s].product, f)}
                  /\ reqs[s].saveVer = reqs[s].loadVer + 1
                  /\ Latest(s) =>
                        /\ Len(files[reqs[s].category]) = Len(reqs[s].loaded) - 1
                        /\ \A i \in 1..Len(files[reqs[s].category]) :
                              files[reqs[s].category][i] =
                                 reqs[s].loaded[IF i < reqs[s].index THEN i ELSE i + 1]

\* a Delete answered 200 although the removal of the product's image, a
\* file that is on disk, failed
C11_Witness ==
    \E s \in Slots :
        /\ Latest(s) /\ reqs[s].kind = "delete" /\ reqs[s].status = 200
        /\ "image" \in reqs[s].logged
        /\ reqs[s].product.image \in uploads
        /\ files[reqs[s].category] = <<>>

\* C12: without a catalog file a List answers 200 with the empty sequence
\* and a Get by id 404; neither creates the file, which exists only once a
\* Create has succeeded.
C12_LazyCatalog ==
    /\ \A c \in Categories : c \in present => created[c] # <<>>
    /\ \A s \in Slots :
          (Latest(s) /\ reqs[s].kind \in {"list", "get"} /\ ~reqs[s].existed) =>
              /\ reqs[s].category \notin present
              /\ reqs[s].kind = "list" => (reqs[s].status = 200 /\ reqs[s].list = <<>>)
              /\ reqs[s].kind = "get" => reqs[s].status = 404

\* a third read in a row of a category that has no catalog file: a List
\* after a Get
C12_Witness ==
    \E s \in Slots, g \in Slots :
        /\ nreq = 3
        /\ Latest(s) /\ reqs[s].kind = "list" /\ ~reqs[s].existed
        /\ reqs[s].status = 200 /\ reqs[s].list = <<>>
        /\ Previous(g) /\ reqs[g].kind = "get" /\ ~reqs[g].existed
        /\ reqs[s].category \notin present

\* an integer numeral: digits only
IsNumeral(str) == str # <<>> /\ \A i \in 1..Len(str) : str[i] \in Digits

\* C13: a Get, Update or Delete whose id parameter is not an integer numeral
\* ('abc', '1abc', '1.5') matches no product: it answers 404 and leaves the
\* catalog unchanged.
C13_NonNumericNeverMatches ==
    \A s \in Slots :
        ( /\ reqs[s].pc = "done"
          /\ reqs[s].kind \in {"get", "update", "delete"}
          /\ ~IsNumeral(reqs[s].id) )
        => /\ reqs[s].status = 404
           /\ Latest(s) =>
                 /\ files[reqs[s].category] = reqs[s].loaded
                 /\ ver[reqs[s].category] = reqs[s].loadVer

\* C14: when no Create body carries an id, no interleaving of the loads and
\* (atomic) saves of overlapping Create, Update and Delete requests leaves
\* two records with the same id in a persisted catalog.
C14_PersistedIdsUnique ==
    \A c \in Categories :
        /\ \A i \in 1..Len(files[c]) : "id" \in DOMAIN files[c][i]
        /\ Cardinality({files[c][i].id : i \in 1..Len(files[c])}) = Len(files[c])

\* two overlapping Creates returned the same id and a later request saved
\* a catalog of two records
C14_Witness ==
    \E a \in Slots, b \in Slots :
        /\ a # b
        /\ reqs[a].kind = "create" /\ reqs[b].kind = "create"
        /\ reqs[a].status = 201 /\ reqs[b].pc = "done"
        /\ reqs[a].loadVer < reqs[b].saveVer /\ reqs[b].loadVer < reqs[a].saveVer
        /\ ver["coffee"] >= 2
        /\ Len(files["coffee"]) = 2

\* C15: a Delete answered 200 removes exactly one record, the first in
\* catalog order whose id is the path id; the catalog is one shorter and
\* the other records keep their contents and their order.
C15_DeleteRemovesFirstMatch ==
    \A d \in Slots :
        (Latest(d) /\ reqs[d].kind = "delete" /\ reqs[d].status = 200) =>
            LET old == reqs[d].loaded
                new == files[reqs[d].category]
                n == parseInt(reqs[d].id)
            IN  /\ Len(new) = Len(old) - 1
                /\ \E k \in 1..Len(old) :
                      /\ IdMatches(old[k], n)
                      /\ \A j \in 1..(k - 1) : ~IdMatches(old[j], n)
                      /\ \A j \in 1..(k - 1) : new[j] = old[j]
                      /\ \A j \in k..Len(new) : new[j] = old[j + 1]

\* a Delete answered 200 on a catalog of two records with the path id: the
\* second one is still there
C15_Witness ==
    \E d \in Slots :
        /\ Latest(d) /\ reqs[d].kind = "delete" /\ reqs[d].status = 200
        /\ Len(reqs[d].loaded) = 2
        /\ IdMatches(reqs[d].loaded[1], parseInt(reqs[d].id))
        /\ IdMatches(reqs[d].loaded[2], parseInt(reqs[d].id))
        /\ reqs[d].loaded[1] # reqs[d].loaded[2]
        /\ files[reqs[d].category] = <<reqs[d].loaded[2]>>

Responded(s) ==
    LET r == reqs[s]
        absent == ~HasId(r.loaded, parseInt(r.id))
    IN  /\ r.responses = 1
        /\ r.status \in {200, 201, 404, 500}
        /\ (r.status = 500) = (r.failed \in {"load", "save"})
        /\ (r.status = 201) = (r.kind = "create" /\ r.failed = "none")
        /\ (r.status = 404) =
              (r.kind \in {"get", "update", "delete"} /\ r.failed = "none" /\ absent)

\* C17: every product request gets exactly one response: 200/201 on
\* success, 404 when the id is absent, 500 when the load or the save
\* fails; a request whose file operations complete or fail is answered.
C17_ExactlyOneResponse ==
    /\ [](\A s \in Slots :
             /\ reqs[s].responses <= 1
             /\ InFlight(s) => reqs[s].responses = 0
             /\ reqs[s].pc = "done" => Responded(s))
    /\ \A s \in Slots : InFlight(s) ~> (reqs[s].pc = "done")

\* a Delete whose unlink failed and whose save failed was answered 500,
\* once, while the other request was answered 201
C17_Witness ==
    \E s \in Slots, t \in Slots :
        /\ reqs[s].pc = "done" /\ reqs[s].kind = "delete"
        /\ reqs[s].failed = "save" /\ reqs[s].logged # {}
        /\ reqs[s].status = 500 /\ reqs[s].responses = 1
        /\ reqs[t].pc = "done" /\ reqs[t].status = 201
====
